---------------------------- MODULE Spec2Model ----------------------------
(***************************************************************************)
(* A model of pyod/models/mo_gaal.py: the MO_GAAL estimator.               *)
(*                                                                         *)
(* The estimator's state is its attributes (k, stop_epochs, discriminator, *)
(* train_history, decision_scores_); a running fit call adds its locals    *)
(* (epoch, batch_idx, stop, the noise partitions, the generators, ...) and *)
(* its position pc.  Network parameters are abstracted to the number of    *)
(* optimizer steps applied to them; tensors to their row counts.           *)
(***************************************************************************)
EXTENDS Integers, Sequences, FiniteSets, TLC

\* ------------------------------------------------------------------ bounds
MaxK == 4
MaxStopEpochs == 2
MaxN == 10
MaxFullBatches == 2
MaxFits == 2
MaxRows == 2
MaxRowVal == 2
MaxCalls == 3

\* ------------------------------------------------------- program constants
\* DataLoader(..., batch_size=min(500, data_size), ...)
BatchCap == 500

\* --------------------------------------------------------------- variables
VARIABLES
    k,                \* self.k
    stop_epochs,      \* self.stop_epochs
    discriminator,    \* self.discriminator: NoAttr, or [id, ver]
    train_history,    \* self.train_history
    decision_scores_, \* self.decision_scores_: NoAttr, or [params, rows]
    pc,               \* position of the (single) thread of control
    fits,             \* number of fit calls that got past check_array
    data_size,        \* fit local: X.shape[0]
    epoch,            \* fit local: epoch of the outer loop (0-indexed)
    batch_idx,        \* fit local: index of the batch in the dataloader
    stop,             \* fit local: the stop flag
    batch_size,       \* fit local: data_batch.size(0)
    noise,            \* fit local: names['noise' + str(i)] as [start, end, rows]
    generated,        \* fit local: rows of names['generated_data' + str(i)]
    all_data_rows,    \* fit local: all_data.size(0)
    labels_rows,      \* fit local: labels.size(0)
    generators,       \* fit local: optimizer steps applied to sub_generator i
    T,                \* fit local: the targets T_i and the rows of trick_i
    gi,               \* fit local: i of the generator loop
    ret,              \* outcome of the last call made on the estimator
    firstCall,        \* the first decision_function result since the last fit
    calls             \* decision_function calls since the last fit

vars == <<k, stop_epochs, discriminator, train_history, decision_scores_, pc,
          fits, data_size, epoch, batch_idx, stop, batch_size, noise,
          generated, all_data_rows, labels_rows, generators, T, gi, ret,
          firstCall, calls>>

estimator == <<k, stop_epochs, discriminator, train_history, decision_scores_>>

locals == <<data_size, epoch, batch_idx, stop, batch_size, noise, generated,
            all_data_rows, labels_rows, generators, T, gi>>

\* ----------------------------------------------------------------- helpers
NoAttr == [attr |-> "missing"]

NoCall == [call |-> "none", kind |-> "none"]

Min(a, b) == IF a < b THEN a ELSE b

Max(a, b) == IF a > b THEN a ELSE b

RECURSIVE SumTo(_, _)
SumTo(f, n) == IF n = 0 THEN 0 ELSE f[n - 1] + SumTo(f, n - 1)

\* rows of tensor[start:end] for a tensor of len rows (0 <= start, 0 <= end)
SliceRows(start, end, len) == Max(0, Min(end, len) - Min(start, len))

\* int((x / 2) * q) for x, q >= 0: true division, then truncation
IntHalfTimes(x, q) == (x * q) \div 2


\* ------------------------------------------------------------------ inputs
\* the row counts of the tables fit is called with; 0 is a table check_array
\* rejects
NSamples ==
    (1..MaxN) \cup {BatchCap * m + r : m \in 1..MaxFullBatches, r \in 0..1}

\* the tables decision_function is called with, n rows of value v; <<>> is a
\* table check_array rejects
Tables ==
    {[j \in 1..n |-> v] : n \in 0..MaxRows, v \in 1..MaxRowVal}

\* sklearn's check_array: at least one sample is required
check_array(rows) == rows >= 1

\* ------------------------------------------------------ noise partitioning
\* a block that counts k twice: k * k instead of (1 + k) * k // 2
Block_Square(kk) == kk * kk

\* block = ((1 + self.k) * self.k) // 2
Block(kk) == ((1 + kk) * kk) \div 2

\* noise_start of generator i
NoiseStart(kk, i, bs) ==
    IntHalfTimes((kk + (kk - i + 1)) * i, bs \div Block(kk))

\* the last generator's slice ends at its noise_end too
NoiseEnd_NoRemainder(kk, i, bs) ==
    IntHalfTimes((kk + (kk - i)) * (i + 1), bs \div Block(kk))

\* the end of generator i's slice: noise_end, or batch_size for the last one
NoiseEnd(kk, i, bs) ==
    IF i # kk - 1
    THEN IntHalfTimes((kk + (kk - i)) * (i + 1), bs \div Block(kk))
    ELSE bs

\* the weights the other way round: generator i gets i + 1 units
NoisePartition_Increasing(kk, i, bs) ==
    [start |-> IntHalfTimes(i * (i + 1), bs \div Block(kk)),
     end   |-> IF i # kk - 1
               THEN IntHalfTimes((i + 1) * (i + 2), bs \div Block(kk))
               ELSE bs,
     rows  |-> SliceRows(IntHalfTimes(i * (i + 1), bs \div Block(kk)),
                         IF i # kk - 1
                         THEN IntHalfTimes((i + 1) * (i + 2),
                                           bs \div Block(kk))
                         ELSE bs,
                         bs)]

\* names['noise' + str(i)] = noise[noise_start:noise_end]
NoisePartition(kk, i, bs) ==
    [start |-> NoiseStart(kk, i, bs),
     end   |-> NoiseEnd(kk, i, bs),
     rows  |-> SliceRows(NoiseStart(kk, i, bs), NoiseEnd(kk, i, bs), bs)]

\* names['sub_generator' + str(i)](noise_i): one synthetic row per noise row
GeneratedRows(noiseRows) == noiseRows

\* torch.cat([data_batch] + [generated_data_i ...], dim=0).size(0)
AllDataRows(bs, gen, kk) == bs + SumTo(gen, kk)

\* batch_size zeros for each generator, whatever it generated
LabelsRows_PerGenerator(bs, gen, kk) == bs + bs * kk

\* torch.cat([ones(batch_size, 1), zeros(sum(d.size(0) ...), 1)]).size(0)
LabelsRows(bs, gen, kk) == bs + SumTo(gen, kk)

\* --------------------------------------------------------------- networks
\* create_discriminator(latent_size, data_size): fresh parameters
NewDiscriminator(id) == [id |-> id, ver |-> 0]

\* optimizer_d.step()
OptimizerStep(d) == [d EXCEPT !.ver = @ + 1]

\* self.discriminator(tensor(X)).ravel(): one score per row, a function of the
\* parameters and of the row
Forward(d, X) == [j \in 1..Len(X) |-> [params |-> d, row |-> X[j]]]

\* the dataloader's batch size and the rows of its batch number idx
LoaderBatchSize(n) == Min(BatchCap, n)

BatchRows(n, idx) == Min(LoaderBatchSize(n), n - idx * LoaderBatchSize(n))

\* epochs = self.stop_epochs * 3
Epochs(se) == se * 3

\* self.train_history = defaultdict(list)
EmptyHistory(kk) ==
    [discriminator_loss |-> <<>>,
     generator_loss     |-> <<>>,
     sub_generator_loss |-> [i \in 0..kk - 1 |-> <<>>]]

\* the number of the batch step being run, as the value of its losses
StepNo == Len(train_history.generator_loss) + 1

\* -------------------------------------------------------------------- init
\* MO_GAAL.__init__
Init ==
    /\ k \in 1..MaxK
    /\ stop_epochs \in 0..MaxStopEpochs
    /\ discriminator = NoAttr
    /\ train_history = EmptyHistory(k)
    /\ decision_scores_ = NoAttr
    /\ pc = "idle"
    /\ fits = 0
    /\ data_size = 0
    /\ epoch = 0
    /\ batch_idx = 0
    /\ stop = 0
    /\ batch_size = 0
    /\ noise = <<>>
    /\ generated = <<>>
    /\ all_data_rows = 0
    /\ labels_rows = 0
    /\ generators = <<>>
    /\ T = <<>>
    /\ gi = 0
    /\ ret = NoCall
    /\ firstCall = NoCall
    /\ calls = 0

\* the locals of a fit call are gone when it returns or raises
DropLocals ==
    /\ data_size' = 0
    /\ epoch' = 0
    /\ batch_idx' = 0
    /\ stop' = 0
    /\ batch_size' = 0
    /\ noise' = <<>>
    /\ generated' = <<>>
    /\ all_data_rows' = 0
    /\ labels_rows' = 0
    /\ generators' = <<>>
    /\ T' = <<>>
    /\ gi' = 0

\* ------------------------------------------------------------------- fit
\* fit(X) on a table check_array rejects: raises before anything is set
FitInvalid ==
    /\ pc = "idle"
    /\ ~check_array(0)
    /\ ret' = [call |-> "fit", kind |-> "ValueError"]
    /\ UNCHANGED <<estimator, pc, fits, locals, firstCall, calls>>

\* fit(X) that keeps the history of the fit before
FitBegin_KeepHistory(n) ==
    /\ pc = "idle"
    /\ fits < MaxFits
    /\ check_array(n)
    /\ fits' = fits + 1
    /\ discriminator' = NewDiscriminator(fits + 1)
    /\ generators' = [i \in 0..k - 1 |-> 0]
    /\ data_size' = n
    /\ stop' = 0
    /\ epoch' = 0
    /\ batch_idx' = 0
    /\ pc' = "loop"
    /\ ret' = NoCall
    /\ firstCall' = NoCall
    /\ calls' = 0
    /\ UNCHANGED <<k, stop_epochs, train_history, decision_scores_,
                   batch_size, noise, generated, all_data_rows, labels_rows,
                   T, gi>>

\* fit(X), up to the start of the epoch loop
FitBegin(n) ==
    /\ pc = "idle"
    /\ fits < MaxFits
    /\ check_array(n)
    /\ fits' = fits + 1
    /\ train_history' = EmptyHistory(k)
    /\ discriminator' = NewDiscriminator(fits + 1)
    /\ generators' = [i \in 0..k - 1 |-> 0]
    /\ data_size' = n
    /\ stop' = 0
    /\ epoch' = 0
    /\ batch_idx' = 0
    /\ pc' = "loop"
    /\ ret' = NoCall
    /\ firstCall' = NoCall
    /\ calls' = 0
    /\ UNCHANGED <<k, stop_epochs, decision_scores_, batch_size, noise,
                   generated, all_data_rows, labels_rows, T, gi>>

\* a batch step, part 1: the batch, its noise, and the k generators' output
GenerateOutliers ==
    /\ pc = "loop"
    /\ epoch < Epochs(stop_epochs)
    /\ batch_size' = BatchRows(data_size, batch_idx)
    /\ noise' = [i \in 0..k - 1 |-> NoisePartition(k, i, batch_size')]
    /\ generated' = [i \in 0..k - 1 |-> GeneratedRows(noise'[i].rows)]
    /\ pc' = "disc"
    /\ UNCHANGED <<estimator, fits, data_size, epoch, batch_idx, stop,
                   all_data_rows, labels_rows, generators, T, gi, ret,
                   firstCall, calls>>

\* a batch step, part 2: concatenation, the size assertion (a failure leaves
\* fit with an AssertionError), and the discriminator's update
TrainDiscriminator ==
    /\ pc = "disc"
    /\ IF AllDataRows(batch_size, generated, k)
            = LabelsRows(batch_size, generated, k)
       THEN /\ all_data_rows' = AllDataRows(batch_size, generated, k)
            /\ labels_rows' = LabelsRows(batch_size, generated, k)
            /\ discriminator' = OptimizerStep(discriminator)
            /\ train_history' =
                 [train_history EXCEPT
                    !.discriminator_loss = Append(@, StepNo)]
            /\ pc' = "targets"
            /\ UNCHANGED <<data_size, epoch, batch_idx, stop, batch_size,
                           noise, generated, generators, T, gi, ret>>
       ELSE /\ pc' = "idle"
            /\ ret' = [call |-> "fit", kind |-> "AssertionError"]
            /\ DropLocals
            /\ UNCHANGED <<discriminator, train_history>>
    /\ UNCHANGED <<k, stop_epochs, decision_scores_, fits, firstCall, calls>>

\* a batch step, part 3: the targets T_i and the tensors trick_i
ComputeTargets ==
    /\ pc = "targets"
    /\ T' = [i \in 0..k - 1 |->
               [scores_of  |-> discriminator,
                q_num      |-> i * 100,
                q_den      |-> k,
                trick_rows |-> noise[i].rows]]
    /\ gi' = 0
    /\ pc' = "gen"
    /\ UNCHANGED <<estimator, fits, data_size, epoch, batch_idx, stop,
                   batch_size, noise, generated, all_data_rows, labels_rows,
                   generators, ret, firstCall, calls>>

\* training generator gi steps the discriminator's optimizer too
TrainGenerator_StepsDiscriminator ==
    /\ pc = "gen"
    /\ gi < k
    /\ stop = 0
    /\ generators' = [generators EXCEPT ![gi] = @ + 1]
    /\ discriminator' = OptimizerStep(discriminator)
    /\ train_history' =
         [train_history EXCEPT
            !.sub_generator_loss[gi] = Append(@, StepNo)]
    /\ gi' = gi + 1
    /\ UNCHANGED <<k, stop_epochs, decision_scores_, pc, fits, data_size,
                   epoch, batch_idx, stop, batch_size, noise, generated,
                   all_data_rows, labels_rows, T, ret, firstCall, calls>>

\* a batch step, part 4, stop == 0: generator gi is trained
TrainGenerator ==
    /\ pc = "gen"
    /\ gi < k
    /\ stop = 0
    /\ generators' = [generators EXCEPT ![gi] = @ + 1]
    /\ train_history' =
         [train_history EXCEPT
            !.sub_generator_loss[gi] = Append(@, StepNo)]
    /\ gi' = gi + 1
    /\ UNCHANGED <<k, stop_epochs, discriminator, decision_scores_, pc, fits,
                   data_size, epoch, batch_idx, stop, batch_size, noise,
                   generated, all_data_rows, labels_rows, T, ret, firstCall, calls>>

\* a batch step, part 4, stop != 0: generator gi is only evaluated
EvaluateGenerator ==
    /\ pc = "gen"
    /\ gi < k
    /\ stop # 0
    /\ train_history' =
         [train_history EXCEPT
            !.sub_generator_loss[gi] = Append(@, StepNo)]
    /\ gi' = gi + 1
    /\ UNCHANGED <<k, stop_epochs, discriminator, decision_scores_, pc, fits,
                   data_size, epoch, batch_idx, stop, batch_size, noise,
                   generated, all_data_rows, labels_rows, generators, T, ret,
                   firstCall, calls>>

\* the flag set one epoch late: epoch > self.stop_epochs
StopAfter_EpochLate(st, ep, se) == IF ep > se THEN 1 ELSE st

\* the flag set one epoch early: epoch + 1 >= self.stop_epochs
StopAfter_EpochEarly(st, ep, se) == IF ep + 1 >= se THEN 1 ELSE st

\* if epoch + 1 > self.stop_epochs: stop = 1
StopAfter(st, ep, se) == IF ep + 1 > se THEN 1 ELSE st

\* a batch step, part 5: the mean generator loss, the stop flag, and the
\* loops' move to the next batch or epoch
EndBatch ==
    /\ pc = "gen"
    /\ gi = k
    /\ train_history' =
         [train_history EXCEPT !.generator_loss = Append(@, StepNo)]
    /\ stop' = StopAfter(stop, epoch, stop_epochs)
    /\ IF (batch_idx + 1) * LoaderBatchSize(data_size) < data_size
       THEN /\ batch_idx' = batch_idx + 1
            /\ epoch' = epoch
       ELSE /\ batch_idx' = 0
            /\ epoch' = epoch + 1
    /\ pc' = "loop"
    /\ UNCHANGED <<k, stop_epochs, discriminator, decision_scores_, fits,
                   data_size, batch_size, noise, generated, all_data_rows,
                   labels_rows, generators, T, gi, ret, firstCall, calls>>

\* the end of fit: decision_scores_ from the trained discriminator
FitEnd ==
    /\ pc = "loop"
    /\ epoch >= Epochs(stop_epochs)
    /\ decision_scores_' = [params |-> discriminator, rows |-> data_size]
    /\ pc' = "idle"
    /\ ret' = [call |-> "fit", kind |-> "self"]
    /\ DropLocals
    /\ UNCHANGED <<k, stop_epochs, discriminator, train_history, fits,
                   firstCall, calls>>

\* ------------------------------------------------------ decision_function
\* no check at all
check_is_fitted_Skipped(d) == TRUE

\* check_is_fitted(self, ['discriminator'])
check_is_fitted(d) == d # NoAttr

\* scoring that leaves the discriminator one optimizer step further
decision_function_Trains(X) ==
    /\ pc = "idle"
    /\ calls < MaxCalls
    /\ calls' = calls + 1
    /\ IF ~check_is_fitted(discriminator)
       THEN /\ ret' = [call |-> "decision_function",
                       kind |-> "NotFittedError"]
            /\ UNCHANGED discriminator
       ELSE IF ~check_array(Len(X))
       THEN /\ ret' = [call |-> "decision_function", kind |-> "ValueError"]
            /\ UNCHANGED discriminator
       ELSE /\ ret' = [call |-> "decision_function", kind |-> "scores",
                       X |-> X, scores |-> Forward(discriminator, X)]
            /\ discriminator' = OptimizerStep(discriminator)
    /\ firstCall' = IF firstCall = NoCall /\ ret'.kind = "scores"
                    THEN ret' ELSE firstCall
    /\ UNCHANGED <<k, stop_epochs, train_history, decision_scores_, pc, fits,
                   locals>>

\* decision_function(X)
decision_function(X) ==
    /\ pc = "idle"
    /\ calls < MaxCalls
    /\ calls' = calls + 1
    /\ IF ~check_is_fitted(discriminator)
       THEN ret' = [call |-> "decision_function", kind |-> "NotFittedError"]
       ELSE IF ~check_array(Len(X))
       THEN ret' = [call |-> "decision_function", kind |-> "ValueError"]
       ELSE ret' = [call |-> "decision_function", kind |-> "scores",
                    X |-> X, scores |-> Forward(discriminator, X)]
    /\ firstCall' = IF firstCall = NoCall /\ ret'.kind = "scores"
                    THEN ret' ELSE firstCall
    /\ UNCHANGED <<estimator, pc, fits, locals>>

\* ------------------------------------------------------------------- spec
Next ==
    \/ FitInvalid
    \/ \E n \in NSamples : FitBegin(n)
    \/ GenerateOutliers
    \/ TrainDiscriminator
    \/ ComputeTargets
    \/ TrainGenerator
    \/ EvaluateGenerator
    \/ EndBatch
    \/ FitEnd
    \/ \E X \in Tables : decision_function(X)

Spec == Init /\ [][Next]_vars


\* ================================================================ claims
\* the positions of a batch step at which its noise partitions exist
Partitioned == pc \in {"disc", "targets", "gen"}

\* the positions of a batch step after the concatenation and the assertion
Concatenated == pc \in {"targets", "gen"}

\* partition i's rows, as a function of i
PartitionRows == [i \in 0..k - 1 |-> noise[i].rows]

NoEmptyPartition == \A i \in 0..k - 1 : noise[i].rows > 0

\* ceil(a / b)
CeilDiv(a, b) == (a + b - 1) \div b

\* C1: for k >= 1 and batch_size >= k the k noise partitions of a batch step,
\* once computed, have non-decreasing boundaries, start at 0, each end where the next starts,
\* end at batch_size, cover every row of [0, batch_size) exactly once, and
\* their sizes sum to batch_size.
C1_PartitionsCoverBatch ==
    (pc = "disc" /\ k >= 1 /\ batch_size >= k) =>
        /\ noise[0].start = 0
        /\ noise[k - 1].end = batch_size
        /\ \A i \in 0..k - 1 :
              /\ noise[i].start <= noise[i].end
              /\ noise[i].rows = noise[i].end - noise[i].start
        /\ \A i \in 0..k - 2 :
              /\ noise[i].end = noise[i + 1].start
              /\ noise[i].start <= noise[i + 1].start
              /\ noise[i].end <= noise[i + 1].end
        /\ \A r \in 0..batch_size - 1 :
              Cardinality({i \in 0..k - 1 :
                             noise[i].start <= r /\ r < noise[i].end}) = 1
        /\ SumTo(PartitionRows, k) = batch_size

\* a batch of 8 rows split among 3 generators (block 6, 2 rows left over)
C1_Witness ==
    /\ Partitioned
    /\ k = 3
    /\ batch_size = 8
    /\ PartitionRows = [i \in 0..2 |-> IF i = 1 THEN 2 ELSE 3]

\* C2, as stated: in a batch step with no empty noise partition, the
\* discriminator's input has batch_size * (1 + k) rows and so has the label
\* vector.
C2_Original ==
    (Concatenated /\ NoEmptyPartition) =>
        /\ all_data_rows = batch_size * (1 + k)
        /\ labels_rows = batch_size * (1 + k)

\* C2, amended: in every batch step, with or without an empty partition, the
\* discriminator's input has batch_size real rows and batch_size synthetic
\* rows, 2 * batch_size in all, the label vector has as many rows, and the
\* size assertion never fails.
C2_TwiceBatchSize ==
    /\ Concatenated =>
          /\ all_data_rows = 2 * batch_size
          /\ labels_rows = all_data_rows
    /\ ret.kind # "AssertionError"

\* a batch step, past the assertion, with k = 3 and no empty partition
C2_Witness ==
    /\ Concatenated
    /\ k = 3
    /\ NoEmptyPartition
    /\ batch_size = 7
    /\ all_data_rows = 14

\* C7, as stated: for k >= 2 and batch_size >= k(k+1)/2 the partition sizes
\* are non-decreasing in the generator index.
C7_Original ==
    (Partitioned /\ k >= 2 /\ batch_size >= (k * (k + 1)) \div 2) =>
        \A i \in 0..k - 2 : noise[i].rows <= noise[i + 1].rows

\* C7, amended: for k >= 2 and batch_size >= k(k+1)/2 the partition sizes
\* strictly decrease over generators 0..k-2 (generator 0 receives the largest
\* of them), and the last generator receives the rest of the batch, at least
\* half of generator k-2's slice.
C7_SizesDecrease ==
    (Partitioned /\ k >= 2 /\ batch_size >= (k * (k + 1)) \div 2) =>
        /\ \A i \in 0..k - 3 : noise[i].rows > noise[i + 1].rows
        /\ \A i \in 0..k - 2 : noise[0].rows >= noise[i].rows
        /\ 2 * noise[k - 1].rows >= noise[k - 2].rows
        /\ noise[k - 1].rows = batch_size - SumTo(PartitionRows, k - 1)

\* 4 generators on a batch of 500 rows: 200, 150, 100 and 50 rows
C7_Witness ==
    /\ Partitioned
    /\ k = 4
    /\ batch_size = 500
    /\ noise[0].rows = 200
    /\ noise[3].rows = 50

\* C10: for k >= 2 a batch has no empty partition iff batch_size >= k(k+1)/2;
\* below that, partitions 0..k-2 are empty and partition k-1 is the whole
\* batch; from that on, partition i < k-1 has (k - i) * (batch_size // block)
\* rows and partition k-1 the remaining rows.
C10_EmptyBelowBlock ==
    (Partitioned /\ k >= 2) =>
        LET block == (k * (k + 1)) \div 2
            q == batch_size \div block
        IN  /\ NoEmptyPartition <=> batch_size >= block
            /\ batch_size < block =>
                  /\ \A i \in 0..k - 2 : noise[i].rows = 0
                  /\ noise[k - 1].start = 0
                  /\ noise[k - 1].end = batch_size
                  /\ noise[k - 1].rows = batch_size
            /\ batch_size >= block =>
                  /\ \A i \in 0..k - 2 : noise[i].rows = (k - i) * q
                  /\ noise[k - 1].rows
                        = batch_size - (block - 1) * q

\* the last batch of an epoch over 501 rows has 1 row: with 3 generators,
\* generators 0 and 1 get nothing
C10_Witness ==
    /\ Partitioned
    /\ k = 3
    /\ data_size = BatchCap + 1
    /\ batch_idx = 1
    /\ batch_size = 1
    /\ noise[0].rows = 0
    /\ noise[2].rows = 1

\* a step of the generator loop that applies an optimizer step to a generator
GeneratorStepped ==
    /\ pc = "gen"
    /\ pc' = "gen"
    /\ generators' # generators

\* the batch steps of an epoch, from the table's rows
BatchesPerEpoch(n) == CeilDiv(n, IF n < BatchCap THEN n ELSE BatchCap)

\* the batch steps this fit call has completed, from the loops' counters
StepsCompleted == epoch * BatchesPerEpoch(data_size) + batch_idx

\* C3, as stated: no generator receives an optimizer step in a batch step of
\* an epoch whose 1-indexed number exceeds stop_epochs.
C3_Original ==
    [][GeneratorStepped => epoch + 1 <= stop_epochs]_vars

\* C3, amended: no generator receives an optimizer step in a batch step of an
\* epoch whose 1-indexed number exceeds stop_epochs, except in the first batch
\* step of epoch stop_epochs + 1; in the later ones the generators are only
\* evaluated and only the discriminator is updated.
C3_NoStepAfterFirstBatch ==
    [][/\ GeneratorStepped =>
             \/ epoch + 1 <= stop_epochs
             \/ epoch + 1 = stop_epochs + 1 /\ batch_idx = 0
       /\ (pc = "gen" /\ (\/ epoch > stop_epochs
                          \/ (epoch = stop_epochs /\ batch_idx > 0))) =>
             /\ discriminator.ver = StepsCompleted + 1
             /\ pc' # "idle" => generators' = generators]_vars

\* the second batch step of epoch stop_epochs + 1, every generator evaluated,
\* none stepped since the epoch's first batch step
C3_Witness ==
    /\ pc = "gen"
    /\ gi = k
    /\ stop_epochs = 1
    /\ epoch = 1
    /\ batch_idx = 1
    /\ \A i \in 0..k - 1 : generators[i] = 3
    /\ discriminator.ver = 4

\* C6: with stop_epochs >= 1 the stop flag starts at 0, becomes 1 exactly
\* once, at the end of the first batch step of epoch stop_epochs + 1, and
\* stays 1 for the rest of the call; the generators are stepped in exactly the
\* batch steps run while it is 0, stop_epochs * B + 1 of them.
C6_StopFlag ==
    /\ [](pc # "idle" /\ stop_epochs >= 1 =>
            /\ stop \in {0, 1}
            /\ stop = 1 <=> \/ epoch > stop_epochs
                            \/ epoch = stop_epochs /\ batch_idx > 0
            /\ pc = "loop" =>
                  \A i \in 0..k - 1 :
                     generators[i] =
                        Min(StepsCompleted,
                            stop_epochs * BatchesPerEpoch(data_size) + 1)
            /\ pc = "loop" /\ epoch >= Epochs(stop_epochs) =>
                  \A i \in 0..k - 1 :
                     generators[i] =
                        stop_epochs * BatchesPerEpoch(data_size) + 1)
    /\ [][stop_epochs >= 1 =>
            /\ stop = 0 /\ stop' = 1 =>
                  /\ pc = "gen" /\ gi = k
                  /\ epoch + 1 = stop_epochs + 1
                  /\ batch_idx = 0
            /\ stop = 1 /\ pc' # "idle" => stop' = 1
            /\ GeneratorStepped => stop = 0
            /\ pc = "gen" /\ gi < k /\ stop = 0 =>
                  generators'[gi] = generators[gi] + 1]_vars

\* the end of a fit call with stop_epochs = 2 on 501 rows (B = 2): the flag is
\* 1 and every generator was stepped 2 * 2 + 1 times in 12 batch steps
C6_Witness ==
    /\ pc = "loop"
    /\ stop_epochs = 2
    /\ data_size = BatchCap + 1
    /\ epoch = 6
    /\ stop = 1
    /\ \A i \in 0..k - 1 : generators[i] = 5
    /\ Len(train_history.generator_loss) = 12

\* C8: at the end of every batch step each of the k + 2 history sequences has
\* one entry per batch step this fit call has completed, nothing from an
\* earlier fit; when fit returns that is
\* 3 * stop_epochs * ceil(n_samples / min(500, n_samples)) entries.
C8_HistoryLengths ==
    LET lens == {Len(train_history.discriminator_loss),
                 Len(train_history.generator_loss)}
                \cup {Len(train_history.sub_generator_loss[i]) :
                        i \in 0..k - 1}
    IN  /\ DOMAIN train_history.sub_generator_loss = 0..k - 1
        /\ pc = "loop" => lens = {StepsCompleted}
        /\ (pc = "idle" /\ ret.kind = "self") =>
              lens = {3 * stop_epochs
                        * CeilDiv(decision_scores_.rows,
                                  Min(500, decision_scores_.rows))}

\* the return of a second fit, on 1001 rows with stop_epochs = 2: 18 entries
C8_Witness ==
    /\ pc = "idle"
    /\ fits = 2
    /\ ret.kind = "self"
    /\ stop_epochs = 2
    /\ decision_scores_.rows = 2 * BatchCap + 1
    /\ Len(train_history.discriminator_loss) = 18
    /\ Len(train_history.sub_generator_loss[k - 1]) = 18

\* C9: a batch step makes exactly one discriminator optimizer step, then
\* computes all k targets from the just-updated discriminator, then updates or
\* evaluates the k generators; the discriminator does not change from the
\* target computation to the end of the step, and updating generator i changes
\* generator i's parameters only.
C9_StepOrder ==
    /\ [](pc # "idle" =>
            /\ pc \in {"loop", "disc"} =>
                  discriminator.ver = Len(train_history.generator_loss)
            /\ pc \in {"targets", "gen"} =>
                  discriminator.ver = Len(train_history.generator_loss) + 1
            /\ pc = "gen" =>
                  /\ DOMAIN T = 0..k - 1
                  /\ \A i \in 0..k - 1 : T[i].scores_of = discriminator)
    /\ [][/\ pc = "gen" /\ pc' # "idle" => discriminator' = discriminator
          /\ (pc # "idle" /\ pc' # "idle" /\ T' # T) =>
                /\ pc = "targets"
                /\ discriminator' = discriminator
          /\ (pc # "idle" /\ pc' # "idle" /\ generators' # generators) =>
                /\ pc = "gen"
                /\ \A j \in 0..k - 1 :
                      j # gi => generators'[j] = generators[j]]_vars

\* the second batch step of a fit, all of k >= 2 generators trained against
\* the targets of the discriminator after its second step
C9_Witness ==
    /\ pc = "gen"
    /\ gi = k
    /\ k >= 2
    /\ stop = 0
    /\ discriminator.ver = 2
    /\ \A i \in 0..k - 1 : generators[i] = 2 /\ T[i].scores_of.ver = 2

\* a step that is a decision_function call
DecisionFunctionCalled == calls' = calls + 1

\* C4: on a fitted estimator decision_function changes no estimator state, so
\* a further call with the same X returns the scores the first call returned,
\* one per row of X.
C4_ScoringIsIdempotent ==
    /\ [](ret.kind = "scores" =>
            /\ Len(ret.scores) = Len(ret.X)
            /\ firstCall # NoCall
            /\ firstCall.X = ret.X => ret.scores = firstCall.scores)
    /\ [][DecisionFunctionCalled /\ discriminator # NoAttr =>
            /\ discriminator' = discriminator
            /\ train_history' = train_history
            /\ decision_scores_' = decision_scores_]_vars

\* a third call in a row, with the 2-row table of the first call
C4_Witness ==
    /\ calls = 3
    /\ ret.kind = "scores"
    /\ firstCall.X = ret.X
    /\ Len(ret.X) = 2
    /\ ret.scores = firstCall.scores

\* C5: decision_function on an estimator with no discriminator fails with a
\* not-fitted error, computing no score and changing no state; it returns
\* scores only once a fit call has created the discriminator.
C5_NotFitted ==
    /\ [](/\ ret.kind = "scores" => discriminator # NoAttr /\ fits >= 1
          /\ fits = 0 => discriminator = NoAttr)
    /\ [][DecisionFunctionCalled /\ discriminator = NoAttr =>
            /\ ret'.kind = "NotFittedError"
            /\ firstCall' = firstCall
            /\ UNCHANGED <<estimator, pc, fits, locals>>]_vars

\* a call before any fit
C5_Witness ==
    /\ fits = 0
    /\ calls >= 1
    /\ ret.call = "decision_function"
    /\ ret.kind = "NotFittedError"

=============================================================================
